---- MODULE Spec2Model ----
(***************************************************************************)
(* The three scripts of the 8-bit RSA demonstration:                       *)
(*   generate-8bit-RSA-keyPair.py          derives and writes the key pair *)
(*   extract-8bit-RSA-publicKeyMaterial.py reads N, e back and factors N   *)
(*   Shor-classicalEdition-8bit.py         rebuilds the key, encrypts and  *)
(*                                         decrypts, then attacks (N, e)   *)
(* The scripts are straight-line programs over module-level variables.     *)
(* Their literals (p, q, e, d, the message, the text) are the inputs of    *)
(* the model and are drawn from small sets that contain the literal        *)
(* values of the scripts.  The cryptography library (key object, PEM) is   *)
(* an external collaborator: a key object is the record of the numbers it  *)
(* was given and a PEM file is the record of the numbers it holds; the     *)
(* library's own validation of a key is not part of the model.             *)
(***************************************************************************)
EXTENDS Integers, Sequences, FiniteSets, TLC

VARIABLES
    pc,                 \* position in the run: which step comes next
    error,              \* the uncaught exception that ended the run, or "none"
    p, q, e, d,         \* the literals of the scripts
    N,                  \* N = p * q
    phi_n,              \* phi(N): from p, q in the generator, from the found factors in the attack
    coprime_report,     \* the verdict printed by the generator on line 39
    verification,       \* (e * d) % phi_n printed by the generator on line 48
    private_key,        \* the numbers of the RSAPrivateNumbers object
    public_key_pem,     \* file public_key.pem
    private_key_pem,    \* file private_key.pem
    modulus_n,          \* extract script: public_numbers.n
    exponent_e,         \* extract script: public_numbers.e
    i,                  \* loop variable of the trial division
    ext_p, ext_q,       \* extract script: the factors p, q found on line 88
    original_message, raw_ciphertext, decrypted_message,
    text_message, message_as_number, encoding_overflow,
    encrypted_number, decrypted_number, decrypted_text, text_result,
    found_p, found_q, found_d,
    outcome             \* which branch of lines 170-186 printed the verdict

vars == << pc, error, p, q, e, d, N, phi_n, coprime_report, verification,
           private_key, public_key_pem, private_key_pem, modulus_n, exponent_e,
           i, ext_p, ext_q, original_message, raw_ciphertext, decrypted_message,
           text_message, message_as_number, encoding_overflow,
           encrypted_number, decrypted_number, decrypted_text, text_result,
           found_p, found_q, found_d, outcome >>

-----------------------------------------------------------------------------
(* Bounds of the model and literal values of the scripts.                  *)

MaxP == 5           \* p, q range over 1..MaxP and the scripts' 11 and 17
MaxE == 5           \* e ranges over 2..MaxE (3 is the scripts' value)
MaxD == 2           \* d ranges over 1..MaxD and the inverses of e mod phi
MaxChar == 2        \* one-character texts chr(1)..chr(MaxChar)
MaxN == 30          \* the attack step alone: N ranges over 2..MaxN
MaxAttackD == 3     \* the attack step alone: d ranges over 0..MaxAttackD

DemoP == 11
DemoQ == 17
DemoE == 3
DemoD == 107
FallbackByte == 72
WeakKeyLimit == 1000

None == -1          \* Python's None; every program value is >= 0
NoInverse == -2     \* pow(a, -1, m) raised ValueError
InvalidUtf8 == << -2 >>   \* bytes.decode('utf-8') raised UnicodeDecodeError
NoText == << -1 >>        \* a text variable that is not bound yet

DemoText == << 72, 105 >>   \* "Hi"

-----------------------------------------------------------------------------
(* Python built-ins used by the scripts.                                   *)

\* pow(base, exponent, modulus) with exponent >= 0
RECURSIVE ModPow(_, _, _)
ModPow(base, exponent, modulus) ==
    IF exponent = 0 THEN 1 % modulus
    ELSE LET h  == ModPow(base, exponent \div 2, modulus)
             sq == (h * h) % modulus
         IN  IF exponent % 2 = 1 THEN (sq * base) % modulus ELSE sq

\* extended Euclid: <<g, x, y>> with a*x + b*y = g = gcd(a, b)
RECURSIVE EGcd(_, _)
EGcd(a, b) ==
    IF b = 0 THEN << a, 1, 0 >>
    ELSE LET r == EGcd(b, a % b)
         IN  << r[1], r[3], r[2] - (a \div b) * r[3] >>

\* pow(a, -1, m) without the final reduction into [0, m)
ModInverseUnreduced(a, m) ==
    LET r == EGcd(a % m, m)
    IN  IF r[1] # 1 THEN NoInverse ELSE r[2]

\* pow(a, -1, m) for m >= 1: the inverse in [0, m), or ValueError
ModInverse(a, m) ==
    LET r == EGcd(a % m, m)
    IN  IF r[1] # 1 THEN NoInverse ELSE r[2] % m

\* int(n**0.5) taken one too small
ISqrtShort(n) == (CHOOSE r \in 0..n : r * r <= n /\ (r + 1) * (r + 1) > n) - 1

\* int(n**0.5): exact for the moduli of the model (below 2^52)
ISqrt(n) == CHOOSE r \in 0..n : r * r <= n /\ (r + 1) * (r + 1) > n

\* truth value of an int-or-None in "if found_p and found_q"
Truthy(x) == x # None /\ x # 0

\* str.encode('utf-8') of one character with a code point below 2048
Utf8EncodeChar(c) ==
    IF c < 128 THEN << c >>
    ELSE << 192 + (c \div 64), 128 + (c % 64) >>

\* str.encode('utf-8') for code points below 2048
RECURSIVE Utf8Encode(_)
Utf8Encode(text) ==
    IF text = << >> THEN << >>
    ELSE Utf8EncodeChar(Head(text)) \o Utf8Encode(Tail(text))

\* int.from_bytes(bytes, 'big')
RECURSIVE FromBytes(_)
FromBytes(bytes) ==
    IF bytes = << >> THEN 0
    ELSE 256 * FromBytes(SubSeq(bytes, 1, Len(bytes) - 1)) + bytes[Len(bytes)]

\* n.to_bytes((n.bit_length() + 7) // 8, 'big'): minimal, 0 gives b''
RECURSIVE ToBytes(_)
ToBytes(n) ==
    IF n = 0 THEN << >> ELSE Append(ToBytes(n \div 256), n % 256)

\* bytes.decode('utf-8') for numbers below 2^16 (one- and two-byte forms;
\* a longer form cannot be complete in two bytes and is invalid)
RECURSIVE Utf8Decode(_)
Utf8Decode(bytes) ==
    IF bytes = << >> THEN << >>
    ELSE LET b == Head(bytes)
         IN  IF b < 128
             THEN LET rest == Utf8Decode(Tail(bytes))
                  IN  IF rest = InvalidUtf8 THEN InvalidUtf8 ELSE << b >> \o rest
             ELSE IF b >= 194 /\ b <= 223 /\ Len(bytes) >= 2
                     /\ bytes[2] >= 128 /\ bytes[2] <= 191
             THEN LET rest == Utf8Decode(Tail(Tail(bytes)))
                  IN  IF rest = InvalidUtf8 THEN InvalidUtf8
                      ELSE << (b - 192) * 64 + (bytes[2] - 128) >> \o rest
             ELSE InvalidUtf8

-----------------------------------------------------------------------------
(* The key object and the inputs.                                          *)

NoKey == [p |-> None, q |-> None, d |-> None, dmp1 |-> None, dmq1 |-> None,
          iqmp |-> None, e |-> None, n |-> None]

NoPublicKey == [n |-> None, e |-> None]

\* generator, lines 52-60, with iqmp taken as the inverse of p mod q
GenBuildKeySwapped(pp, qq, dd, ee, nn) ==
    [p |-> pp, q |-> qq, d |-> dd, dmp1 |-> dd % (pp - 1), dmq1 |-> dd % (qq - 1),
     iqmp |-> ModInverse(pp, qq), e |-> ee, n |-> nn]

\* generator, lines 52-60: rsa.RSAPrivateNumbers(p, q, d, dmp1, dmq1, iqmp, (e, N))
GenBuildKey(pp, qq, dd, ee, nn) ==
    [p |-> pp, q |-> qq, d |-> dd, dmp1 |-> dd % (pp - 1), dmq1 |-> dd % (qq - 1),
     iqmp |-> ModInverse(qq, pp), e |-> ee, n |-> nn]

\* attack script, lines 40-48, with dmp1 reduced mod p instead of p - 1
ShorBuildKeyModP(pp, qq, dd, ee, nn) ==
    [p |-> pp, q |-> qq, d |-> dd, dmp1 |-> dd % pp, dmq1 |-> dd % (qq - 1),
     iqmp |-> ModInverse(qq, pp), e |-> ee, n |-> nn]

\* attack script, lines 40-48: the same construction, written a second time
ShorBuildKey(pp, qq, dd, ee, nn) ==
    [p |-> pp, q |-> qq, d |-> dd, dmp1 |-> dd % (pp - 1), dmq1 |-> dd % (qq - 1),
     iqmp |-> ModInverse(qq, pp), e |-> ee, n |-> nn]

\* the literals p and q (lines 22-23 / 31-32)
PVals == (1..MaxP) \cup {DemoP, DemoQ}

\* the literal e (line 34)
EVals == (2..MaxE) \cup {DemoE}

\* the literal d (line 35/46, "precomputed"): the inverses of e mod phi in
\* [0, phi), which is 107 for the scripts' values, and some other values
DVals(pp, qq, ee) ==
    LET phi == (pp - 1) * (qq - 1)
    IN  (1..MaxD) \cup {x \in 0..(phi - 1) : (ee * x) % phi = 1}

\* the literal text (line 81): the prefixes of "Hi" and one-character texts
TextVals ==
    {SubSeq(DemoText, 1, k) : k \in 0..Len(DemoText)} \cup {<< c >> : c \in 1..MaxChar}

literals == << p, q, e, d >>
genVars == << coprime_report, verification, public_key_pem, private_key_pem >>
extVars == << modulus_n, exponent_e, ext_p, ext_q >>
rawVars == << original_message, raw_ciphertext, decrypted_message >>
textVars == << text_message, message_as_number, encoding_overflow,
               encrypted_number, decrypted_number, decrypted_text, text_result >>
attackVars == << found_p, found_q, found_d, outcome >>

\* the state every variable has before its script binds it
Unbound ==
    /\ error = "none"
    /\ phi_n = None
    /\ coprime_report = None /\ verification = None
    /\ private_key = NoKey
    /\ public_key_pem = NoPublicKey /\ private_key_pem = NoKey
    /\ modulus_n = None /\ exponent_e = None
    /\ i = None /\ ext_p = None /\ ext_q = None
    /\ original_message = None /\ raw_ciphertext = None /\ decrypted_message = None
    /\ text_message = NoText /\ message_as_number = None /\ encoding_overflow = FALSE
    /\ encrypted_number = None /\ decrypted_number = None
    /\ decrypted_text = NoText /\ text_result = "none"
    /\ found_p = None /\ found_q = None /\ found_d = None
    /\ outcome = "none"

\* the generator is about to run with its literals
Init ==
    /\ pc = "gen_start"
    /\ p \in PVals /\ q \in PVals /\ e \in EVals
    /\ d \in DVals(p, q, e)
    /\ N = None
    /\ Unbound

\* an uncaught exception ends the run
Crash(kind) == pc' = "crashed" /\ error' = kind

-----------------------------------------------------------------------------
(* generate-8bit-RSA-keyPair.py                                            *)

\* line 39: the verdict printed as "e is coprime to phi(N)"
CoprimeReport(ee, phi) == phi % ee # 0

\* lines 22-39: N, phi(N) and the printed coprimality verdict
GenDerive ==
    /\ pc = "gen_start"
    /\ N' = p * q
    /\ phi_n' = (p - 1) * (q - 1)
    /\ coprime_report' = CoprimeReport(e, (p - 1) * (q - 1))
    /\ pc' = "gen_verify"
    /\ UNCHANGED << error, literals, verification, private_key, public_key_pem,
                    private_key_pem, i, extVars, rawVars, textVars, attackVars >>

\* lines 46-48: d is a literal; (e * d) % phi_n is printed, nothing is rejected
GenVerify ==
    /\ pc = "gen_verify"
    /\ IF phi_n = 0
       THEN Crash("ZeroDivisionError") /\ UNCHANGED verification
       ELSE /\ verification' = (e * d) % phi_n
            /\ pc' = "gen_key"
            /\ UNCHANGED error
    /\ UNCHANGED << literals, N, phi_n, coprime_report, private_key, public_key_pem,
                    private_key_pem, i, extVars, rawVars, textVars, attackVars >>

\* lines 52-64: the private key object; pow(q, -1, p) raises when q has no inverse
GenKey ==
    /\ pc = "gen_key"
    /\ IF ModInverse(q, p) = NoInverse
       THEN Crash("ValueError") /\ UNCHANGED private_key
       ELSE /\ private_key' = GenBuildKey(p, q, d, e, N)
            /\ pc' = "gen_write"
            /\ UNCHANGED error
    /\ UNCHANGED << literals, N, phi_n, genVars, i, extVars, rawVars, textVars,
                    attackVars >>

\* lines 66-110: public_key.pem holds (N, e), private_key.pem the private numbers
GenWritePem ==
    /\ pc = "gen_write"
    /\ public_key_pem' = [n |-> private_key.n, e |-> private_key.e]
    /\ private_key_pem' = private_key
    /\ pc' = "ext_load"
    /\ UNCHANGED << error, literals, N, phi_n, coprime_report, verification,
                    private_key, i, extVars, rawVars, textVars, attackVars >>

-----------------------------------------------------------------------------
(* extract-8bit-RSA-publicKeyMaterial.py                                   *)

\* lines 26-60: N and e read back from public_key.pem
ExtLoad ==
    /\ pc = "ext_load"
    /\ modulus_n' = public_key_pem.n
    /\ exponent_e' = public_key_pem.e
    /\ pc' = "ext_analyse"
    /\ UNCHANGED << error, literals, N, phi_n, genVars, private_key, i, ext_p, ext_q,
                    rawVars, textVars, attackVars >>

\* lines 79-86 and 92-93: only a modulus below 1000 is factored
ExtAnalyse ==
    /\ pc = "ext_analyse"
    /\ IF modulus_n < WeakKeyLimit
       THEN i' = 2 /\ pc' = "ext_loop"
       ELSE i' = i /\ pc' = "shor_step1"
    /\ UNCHANGED << error, literals, N, phi_n, genVars, private_key, extVars,
                    rawVars, textVars, attackVars >>

\* lines 86-91: for i in range(2, int(modulus_n**0.5) + 1), break on a divisor
ExtLoop ==
    /\ pc = "ext_loop"
    /\ IF i > ISqrt(modulus_n)
       THEN pc' = "shor_step1" /\ UNCHANGED << i, ext_p, ext_q >>
       ELSE IF modulus_n % i = 0
       THEN /\ ext_p' = i
            /\ ext_q' = modulus_n \div i
            /\ pc' = "shor_step1"
            /\ UNCHANGED i
       ELSE i' = i + 1 /\ UNCHANGED << pc, ext_p, ext_q >>
    /\ UNCHANGED << error, literals, N, phi_n, genVars, private_key, modulus_n,
                    exponent_e, rawVars, textVars, attackVars >>

-----------------------------------------------------------------------------
(* Shor-classicalEdition-8bit.py                                           *)

\* lines 31-51: the key pair is rebuilt from the same literals; d % (p - 1),
\* d % (q - 1) and pow(q, -1, p) are evaluated in this order
ShorStep1 ==
    /\ pc = "shor_step1"
    /\ N' = p * q
    /\ IF p = 1 \/ q = 1
       THEN Crash("ZeroDivisionError") /\ UNCHANGED private_key
       ELSE IF ModInverse(q, p) = NoInverse
       THEN Crash("ValueError") /\ UNCHANGED private_key
       ELSE /\ private_key' = ShorBuildKey(p, q, d, e, p * q)
            /\ pc' = "shor_step2"
            /\ UNCHANGED error
    /\ UNCHANGED << literals, phi_n, genVars, i, extVars, rawVars, textVars,
                    attackVars >>

\* line 62: ciphertext = message^e mod N
RawEncrypt(m, ee, nn) == ModPow(m, ee, nn)

\* line 66 with the public exponent used in place of d
RawDecryptWithE(c, dd, nn) == ModPow(c, e, nn)

\* line 66: message = ciphertext^d mod N
RawDecrypt(c, dd, nn) == ModPow(c, dd, nn)

\* lines 57-73: a number below N is encrypted and decrypted
ShorStep2 ==
    /\ pc = "shor_step2"
    /\ \E m \in 0..(N - 1) :
          /\ original_message' = m
          /\ raw_ciphertext' = RawEncrypt(m, e, N)
          /\ decrypted_message' = RawDecrypt(RawEncrypt(m, e, N), d, N)
    /\ pc' = "shor_step3"
    /\ UNCHANGED << error, literals, N, phi_n, genVars, private_key, i, extVars,
                    textVars, attackVars >>

\* lines 93-97: a number that does not fit the modulus is replaced by 72
FitNumber(number, nn) == IF number >= nn THEN FallbackByte ELSE number

\* lines 81-97: the text as a number; a number >= N is replaced by 72 ("H")
ShorStep3Encode ==
    /\ pc = "shor_step3"
    /\ \E text \in TextVals :
          LET number == FromBytes(Utf8Encode(text))
          IN  /\ encoding_overflow' = (number >= N)
              /\ message_as_number' = FitNumber(number, N)
              /\ text_message' = IF number >= N THEN << FallbackByte >> ELSE text
    /\ pc' = "shor_step3_encrypt"
    /\ UNCHANGED << error, literals, N, phi_n, genVars, private_key, i, extVars,
                    rawVars, encrypted_number, decrypted_number, decrypted_text,
                    text_result, attackVars >>

\* lines 99-152: the number is encrypted, decrypted and decoded; bytes that
\* are not UTF-8 are shown as chr(decrypted_number).  The OAEP attempt of
\* lines 132-146 is caught whatever it does and changes no variable.
ShorStep3Crypt ==
    /\ pc = "shor_step3_encrypt"
    /\ LET c    == ModPow(message_as_number, e, N)
           m    == ModPow(c, d, N)
           text == Utf8Decode(ToBytes(m))
       IN  /\ encrypted_number' = c
           /\ decrypted_number' = m
           /\ IF text = InvalidUtf8
              THEN decrypted_text' = NoText /\ text_result' = "single_character"
              ELSE /\ decrypted_text' = text
                   /\ text_result' = IF text = text_message THEN "successful"
                                     ELSE "no_match"
    /\ pc' = "shor_step5"
    /\ UNCHANGED << error, literals, N, phi_n, genVars, private_key, i, extVars,
                    rawVars, text_message, message_as_number, encoding_overflow,
                    attackVars >>

\* lines 154-163: the attacker starts from N and e
ShorStep5Start ==
    /\ pc = "shor_step5"
    /\ found_p' = None /\ found_q' = None
    /\ i' = 2
    /\ pc' = "shor_factor"
    /\ UNCHANGED << error, literals, N, phi_n, genVars, private_key, extVars,
                    rawVars, textVars, found_d, outcome >>

\* line 164 with the range ending one candidate early: range(2, int(N**0.5))
LastCandidateShort(nn) == ISqrt(nn) - 1

\* line 164: the last candidate of range(2, int(N**0.5) + 1)
LastCandidate(nn) == ISqrt(nn)

\* lines 164-168: one pass of the loop; it ends on a divisor or past the range
ShorFactorLoop ==
    /\ pc = "shor_factor"
    /\ IF i > LastCandidate(N)
       THEN pc' = "shor_attack" /\ UNCHANGED << i, found_p, found_q >>
       ELSE IF N % i = 0
       THEN /\ found_p' = i
            /\ found_q' = N \div i
            /\ pc' = "shor_attack"
            /\ UNCHANGED i
       ELSE i' = i + 1 /\ UNCHANGED << pc, found_p, found_q >>
    /\ UNCHANGED << error, literals, N, phi_n, genVars, private_key, extVars,
                    rawVars, textVars, found_d, outcome >>

\* line 172 with only one factor decremented
AttackPhiOneSided(fp, fq) == (fp - 1) * fq

\* line 172: phi(N) from the found factors
AttackPhi(fp, fq) == (fp - 1) * (fq - 1)

\* line 177 with the stored private exponent read in place of the inverse
RecoverExponentLeak(ee, phi) == d

\* line 177: found_d = pow(e, -1, phi_n)
RecoverExponent(ee, phi) == ModInverse(ee, phi)

\* lines 170-186: phi(N), the inverse of e and the verdict
ShorAttack ==
    /\ pc = "shor_attack"
    /\ IF Truthy(found_p) /\ Truthy(found_q)
       THEN LET phi == AttackPhi(found_p, found_q)
                inv == RecoverExponent(e, phi)
            IN  /\ phi_n' = phi
                /\ IF inv = NoInverse
                   THEN found_d' = found_d /\ outcome' = "inverse_failed"
                   ELSE /\ found_d' = inv
                        /\ outcome' = IF inv = d THEN "compromised" ELSE "mismatch"
       ELSE /\ outcome' = "unfactored"
            /\ UNCHANGED << phi_n, found_d >>
    /\ pc' = "done"
    /\ UNCHANGED << error, literals, N, genVars, private_key, i, extVars, rawVars,
                    textVars, found_p, found_q >>

-----------------------------------------------------------------------------
(* The run of the three scripts, one after the other.                      *)

Next ==
    \/ GenDerive
    \/ GenVerify
    \/ GenKey
    \/ GenWritePem
    \/ ExtLoad
    \/ ExtAnalyse
    \/ ExtLoop
    \/ ShorStep1
    \/ ShorStep2
    \/ ShorStep3Encode
    \/ ShorStep3Crypt
    \/ ShorStep5Start
    \/ ShorFactorLoop
    \/ ShorAttack

Spec == Init /\ [][Next]_vars

(* Step 5 on its own: the attacker's public pair (N, e) is any modulus     *)
(* N >= 2 and any exponent, and d is whatever the key owner holds.         *)

AttackInit ==
    /\ pc = "shor_step5"
    /\ N \in 2..MaxN
    /\ e \in EVals
    /\ d \in 0..MaxAttackD
    /\ p = None /\ q = None
    /\ Unbound

AttackNext ==
    \/ ShorStep5Start
    \/ ShorFactorLoop
    \/ ShorAttack

AttackSpec == AttackInit /\ [][AttackNext]_vars

-----------------------------------------------------------------------------
(* Number theory used to state the properties, defined without the         *)
(* algorithms of the scripts.                                              *)

IsPrime(n) == n >= 2 /\ \A k \in 2..(n - 1) : n % k # 0

Coprime(a, b) == \A k \in 2..a : ~(a % k = 0 /\ b % k = 0)

Min(a, b) == IF a <= b THEN a ELSE b

Max(a, b) == IF a <= b THEN b ELSE a

Phi == (p - 1) * (q - 1)

\* p, q distinct primes and e coprime to phi
ValidPublic == IsPrime(p) /\ IsPrime(q) /\ p # q /\ Coprime(e, Phi)

\* ... and d an inverse of e mod phi
ValidKey == ValidPublic /\ (e * d) % Phi = 1

\* ... and d the inverse of e in [0, phi), as key generation derives it
GeneratedKey == ValidKey /\ d < Phi

DemoKey == p = DemoP /\ q = DemoQ /\ e = DemoE /\ d = DemoD

\* the CRT decrypt path, as the specification states it (section 4.3):
\* m1 = c^dmp1 mod p, m2 = c^dmq1 mod q, h = iqmp*(m1 - m2) mod p, m2 + h*q
CrtDecrypt(c, key) ==
    LET m1 == ModPow(c, key.dmp1, key.p)
        m2 == ModPow(c, key.dmq1, key.q)
        h  == (key.iqmp * (m1 - m2)) % key.p
    IN  m2 + h * key.q

-----------------------------------------------------------------------------
(* C1: round trip.  For every valid key pair and every m in [0, N), the    *)
(* decryption of the encryption of m is m again (m = 0, m = 1 and every m  *)
(* sharing a factor with N included); 42 encrypts to 36 under N = 187,     *)
(* e = 3 and 36 decrypts to 42.                                            *)
C1_RoundTrip ==
    (ValidKey /\ original_message # None) =>
        /\ raw_ciphertext \in 0..(N - 1)
        /\ decrypted_message = original_message
        /\ (DemoKey /\ original_message = 42) => raw_ciphertext = 36

\* the scripts' own run of step 2: 42 -> 36 -> 42
C1_Witness ==
    /\ pc = "shor_step3" /\ DemoKey /\ N = 187
    /\ original_message = 42 /\ raw_ciphertext = 36 /\ decrypted_message = 42

C3_AttackRecovers ==
    (GeneratedKey /\ pc = "done") =>
        /\ outcome = "compromised"
        /\ phi_n = Phi
        /\ found_d = d
        /\ (e * found_d) % Phi = 1
        /\ (N = 187 /\ e = 3) => found_d = 107

\* the scripts' own attack: 187 = 11 * 17, phi = 160, d = 107
C3_Witness ==
    /\ pc = "done" /\ DemoKey /\ outcome = "compromised"
    /\ found_p = 11 /\ found_q = 17 /\ phi_n = 160 /\ found_d = 107

(* C4: factorization.  For N = p*q with p, q distinct primes both trial    *)
(* division loops try 2, 3, ... in increasing order, never go past the     *)
(* first divisor, and end with the factors (min(p, q), max(p, q)).         *)
C4_Factorization ==
    (IsPrime(p) /\ IsPrime(q) /\ p # q) =>
        /\ pc \in {"shor_factor", "ext_loop"} =>
              /\ i \in 2..Min(p, q)
              /\ \A k \in 2..(i - 1) : (p * q) % k # 0
        /\ pc \in {"shor_attack", "done"} =>
              /\ found_p = Min(p, q) /\ found_q = Max(p, q)
              /\ i = found_p
        /\ (pc \in {"shor_step1", "shor_step2"} /\ modulus_n < WeakKeyLimit) =>
              /\ ext_p = Min(p, q) /\ ext_q = Max(p, q)
              /\ i = ext_p

\* 187 written as 17 * 11 is factored as (11, 17) by both loops
C4_Witness ==
    /\ pc = "done" /\ p = 17 /\ q = 11
    /\ found_p = 11 /\ found_q = 17 /\ ext_p = 11 /\ ext_q = 17

(* C5 as stated: for every key pair of distinct primes with the CRT terms  *)
(* built as in the scripts, the CRT path equals c^d mod N for every        *)
(* ciphertext c in [0, N).                                                 *)
C5_CrtEquivalence_Original ==
    (ValidKey /\ pc = "shor_step2") =>
        \A c \in 0..(N - 1) : CrtDecrypt(c, private_key) = RawDecrypt(c, d, N)

(* C5 amended: the same for p, q distinct ODD primes (c = 0 and every c    *)
(* divisible by p or by q included).                                       *)
C5_CrtEquivalence ==
    (ValidKey /\ p # 2 /\ q # 2 /\ pc = "shor_step2") =>
        \A c \in 0..(N - 1) : CrtDecrypt(c, private_key) = RawDecrypt(c, d, N)

\* the scripts' key: 36 decrypts to 42 on the CRT path, and so do
\* ciphertexts divisible by p or q
C5_Witness ==
    /\ pc = "shor_step2" /\ DemoKey
    /\ CrtDecrypt(36, private_key) = 42
    /\ CrtDecrypt(0, private_key) = 0
    /\ CrtDecrypt(11, private_key) = RawDecrypt(11, d, N)
    /\ CrtDecrypt(34, private_key) = RawDecrypt(34, d, N)

(* C6 as stated: a text whose number is >= N yields no ciphertext and is   *)
(* not replaced by other data, so every number that reaches the text       *)
(* encryption step is in [0, N).                                           *)
C6_OverflowYieldsNoCiphertext ==
    /\ pc = "shor_step3_encrypt" => message_as_number \in 0..(N - 1)
    /\ encoding_overflow => encrypted_number = None

C8_Unfactored ==
    /\ error = "none" /\ pc # "crashed"
    /\ pc = "done" \/ ENABLED AttackNext
    /\ pc = "shor_factor" => i \in 2..(LastCandidate(N) + 1)
    /\ pc = "done" =>
          IF \E k \in 2..(N - 1) : N % k = 0
          THEN outcome # "unfactored" /\ found_p # None
          ELSE /\ outcome = "unfactored"
               /\ found_p = None /\ found_q = None
               /\ phi_n = None /\ found_d = None

\* N = 2: the range of candidates is empty
C8_Witness ==
    /\ pc = "done" /\ N = 2 /\ outcome = "unfactored"
    /\ found_p = None /\ phi_n = None /\ found_d = None

(* C9 as stated: for 1 < e < phi the generator's printed coprimality       *)
(* verdict is true exactly when gcd(e, phi) = 1, and no key is built for   *)
(* an e that is not coprime to phi.                                        *)
C9_CoprimeVerdict ==
    (1 < e /\ e < Phi) =>
        /\ pc # "gen_start" => (coprime_report <=> Coprime(e, Phi))
        /\ private_key # NoKey => Coprime(e, Phi)

(* C10: the attacker uses only public information.  At the end of the      *)
(* attack found_p, found_q, phi_n and found_d are the values fixed by N    *)
(* and e alone (least divisor of N, its cofactor, their phi, the inverse   *)
(* of e mod that phi if there is one); p, q and d have no part in them,    *)
(* and d only decides between "compromised" and "mismatch".                *)
C10_PublicOnly ==
    pc = "done" =>
        LET fp  == CHOOSE k \in 2..N : N % k = 0 /\ \A j \in 2..(k - 1) : N % j # 0
            fq  == N \div fp
            phi == (fp - 1) * (fq - 1)
            inv == {x \in 0..(phi - 1) : (e * x) % phi = 1 % phi}
        IN  /\ found_p = fp /\ found_q = fq /\ phi_n = phi
            /\ IF Coprime(e, phi)
               THEN /\ found_d \in inv
                    /\ outcome = IF found_d = d THEN "compromised" ELSE "mismatch"
               ELSE found_d = None /\ outcome = "inverse_failed"

\* p and q in the other order and a stored d that is not the inverse:
\* the recovery is the same, only the verdict differs
C10_Witness ==
    /\ pc = "done" /\ p = 17 /\ q = 11 /\ e = 3 /\ d = 1
    /\ found_p = 11 /\ found_q = 17 /\ phi_n = 160 /\ found_d = 107
    /\ outcome = "mismatch"

====
